---- MODULE Spec2Model ----
(***************************************************************************)
(* Authentication and session-lifecycle engine of graphql-auth-service.   *)
(*                                                                         *)
(* The orchestrator (src/src/controller/UserController.ts) is translated   *)
(* handler by handler.  The credential store (model/UserModel) and the     *)
(* session store (model/SessionModel) it calls are not part of the source  *)
(* tree; their operations are modelled from sections 3 and 4 of the        *)
(* specification and carry the prefixes User and Session.                  *)
(*                                                                         *)
(* Spec runs every handler as one step.  SpecConc splits Register,         *)
(* UpdateMe and Refresh at their awaits, so that two requests interleave   *)
(* between store operations.                                               *)
(***************************************************************************)
EXTENDS Integers, Sequences, FiniteSets, TLC

VARIABLES
    users,      \* credential store: _id -> user document (NoDoc when absent)
    nextId,     \* next _id the store assigns
    sessions,   \* session store: set of [userId, refreshToken, expiryDate]
    nextToken,  \* next value of the random token generator
    now,        \* wall clock, in ticks of MsPerTick milliseconds
    issued,     \* claim sets of the bearer tokens signed so far
    jobs,       \* payloads handed to agenda.now('email', ...), in order
    resp,       \* response of the last handler that ran
    calls,      \* the in-flight requests of the concurrent clients
    spent,      \* history: the tokens a successful handler has retired
    outcomes,   \* what became of the jobs the 'email' worker has run, in order
    emailNotSentLogFile,    \* config.emailNotSentLogFile is set
    emailNotSentLog,        \* the payloads appended to that file
    events      \* the payloads emitted as 'email-error'

vars == <<users, nextId, sessions, nextToken, now, issued, jobs, resp, calls, spent,
          outcomes, emailNotSentLogFile, emailNotSentLog, events>>

---------------------------------------------------------------------------
(* Bounds and input domains *)

MaxUsers == 2
MaxTokens == 3
MaxJobs == 3
MaxCalls == 2

Usernames == {"username", "username2"}
Emails == {"test@test.com", "test2@test.com"}
Passwords == {"toto", "password", "password2"}

NoToken == 0
NoDate == -1
NoString == ""
\* req.headers['authorization'] of a request without the header: a header that
\* is present splits into one word at least.
NoHeader == <<>>

DELAY_TO_CHANGE_PASSWORD_IN_MINUTS == 60

\* One tick of the model clock is half a minute.
MsPerTick == 30000
\* Fixed session lifetime of createSession / updateSession (60 minutes).
SessionLifetime == 120
\* The instants at which requests arrive.
TimePoints == {0, 1, 119, 120, 121, 122}

UserIds == 1..MaxUsers
Clients == 1..MaxCalls

NoDoc ==
    [_id |-> 0, username |-> NoString, email |-> NoString, password |-> NoString,
     verified |-> FALSE, verificationToken |-> NoToken,
     passwordRecoveryToken |-> NoToken, passwordRecoveryRequestDate |-> NoDate]

\* req.user === undefined
Anonymous == [_id |-> 0, username |-> NoString, email |-> NoString, verified |-> FALSE]

Docs == {users[i] : i \in {j \in UserIds : users[j]._id # 0}}

---------------------------------------------------------------------------
(* Credential store (UserModel) *)

\* Salted one-way hash; never equal to a clear password.
Hash(password) == "$2b$" \o password

\* findOne(filter) for a one-field filter: the first matching document in
\* insertion order, NoDoc when there is none.
UserGetUser(field, value) ==
    LET hits == {i \in UserIds : users[i]._id # 0 /\ users[i][field] = value}
    IN  IF hits = {} THEN NoDoc
        ELSE users[CHOOSE i \in hits : \A j \in hits : i <= j]

UserExists(field, value) == UserGetUser(field, value)._id # 0

\* Public projection: no hash, no tokens.
UserGetUserNonInternalFields(doc) ==
    [_id |-> doc._id, username |-> doc.username, email |-> doc.email,
     verified |-> doc.verified]

\* False both for "no such user" and for "hash mismatch".
UserIsPasswordValid(doc, candidate) ==
    doc._id # 0 /\ doc.password = Hash(candidate)

\* Mutant: the email index is missing.
DuplicateKeys_usernameOnly(id, doc) ==
    {f \in {"username"} : \E d \in Docs : d._id # id /\ d[f] = doc[f]}

\* The unique indexes that `doc` would violate if stored under `id`.
DuplicateKeys(id, doc) ==
    {f \in {"username", "email"} : \E d \in Docs : d._id # id /\ d[f] = doc[f]}

\* The raw failure the persistence layer raises for a violated unique index:
\* "E11000 duplicate key error ... index: <field>_1 dup key: { : <value> }".
DuplicateKeyError(field, value) ==
    [name |-> "MongoError", text |-> "duplicate key", index |-> field, value |-> value]

\* patch applied to doc; a password in the patch is hashed before it is stored.
UserApplyPatch(doc, patch) ==
    [f \in DOMAIN doc |->
        IF f \in DOMAIN patch
        THEN IF f = "password" THEN Hash(patch[f]) ELSE patch[f]
        ELSE doc[f]]

\* The document createUser stores for the submitted fields.
UserNewDoc(id, user) ==
    [_id |-> id, username |-> user.username, email |-> user.email,
     password |-> Hash(user.password), verified |-> FALSE,
     verificationToken |-> user.verificationToken,
     passwordRecoveryToken |-> NoToken, passwordRecoveryRequestDate |-> NoDate]

\* Claims of a bearer token signed for doc.
UserSignClaims(doc) == UserGetUserNonInternalFields(doc)

---------------------------------------------------------------------------
(* Session store (SessionModel) *)

SessionNew(userId, refreshToken) ==
    [userId |-> userId, refreshToken |-> refreshToken,
     expiryDate |-> now + SessionLifetime]

SessionMatching(S, userId, refreshToken) ==
    {s \in S : s.userId = userId /\ s.refreshToken = refreshToken}

SessionCreateSession(S, userId, refreshToken) ==
    S \cup {SessionNew(userId, refreshToken)}

SessionRemoveSession(S, userId, refreshToken) ==
    S \ SessionMatching(S, userId, refreshToken)

SessionRemoveOutdatedSessions(S, userId) ==
    S \ {s \in S : s.userId = userId /\ s.expiryDate <= now}

SessionIsValid(S, userId, refreshToken) ==
    \E s \in SessionMatching(S, userId, refreshToken) : now < s.expiryDate

\* Mutant: the replacement is an upsert, so a caller whose session is gone
\* still gets a new one.
SessionUpdateSession_upsert(S, userId, refreshToken, fresh) ==
    [found |-> TRUE,
     sessions |-> (S \ SessionMatching(S, userId, refreshToken))
                     \cup {SessionNew(userId, fresh)}]

\* Atomic match-and-replace: one conditional update.  `found` is false, and
\* the caller gets NotFound, when no session matched.
SessionUpdateSession(S, userId, refreshToken, fresh) ==
    IF SessionMatching(S, userId, refreshToken) = {}
    THEN [found |-> FALSE, sessions |-> S]
    ELSE [found |-> TRUE,
          sessions |-> (S \ SessionMatching(S, userId, refreshToken))
                          \cup {SessionNew(userId, fresh)}]

NoSession == [userId |-> 0, refreshToken |-> NoToken, expiryDate |-> NoDate]

\* {user, session} for a refresh token; both empty when the token is unknown,
\* the session expired or its owner is gone.
SessionGetUserAndSessionFromRefreshToken(S, refreshToken) ==
    LET hits == {s \in S : s.refreshToken = refreshToken /\ refreshToken # NoToken
                           /\ now < s.expiryDate /\ users[s.userId]._id # 0}
    IN  IF hits = {} THEN [user |-> NoDoc, session |-> NoSession]
        ELSE LET s == CHOOSE x \in hits : TRUE
             IN  [user |-> users[s.userId], session |-> s]

---------------------------------------------------------------------------
(* Requests, responses and outcomes *)

\* What a handler leaves behind: the stores, the job queue and its response.
Same ==
    [users |-> users, nextId |-> nextId, sessions |-> sessions,
     nextToken |-> nextToken, issued |-> issued, jobs |-> jobs, spent |-> spent]

\* History entry for a token that a handler consumed or replaced.
Spent(kind, userId, token) == [kind |-> kind, userId |-> userId, token |-> token]

\* The response of a handler: the error it throws (none: NoString), the status
\* it sets, the cookie it sets, the claims of the bearer token it returns and
\* the notifications it returns or renders.  `presented` records the token the
\* request carried (a one-time token or the refreshToken cookie), for the
\* handlers whose outcome depends on it.
Response(op) ==
    [op |-> op, error |-> NoString, message |-> NoString, status |-> 200,
     setCookie |-> NoToken, token |-> Anonymous, notifications |-> <<>>,
     presented |-> NoToken, user |-> Anonymous,
     authorization |-> NoHeader, context |-> Anonymous]

Throw(r, error, message) == [r EXCEPT !.error = error, !.message = message]

Notification(type, message) == [type |-> type, message |-> message]

\* err.message.includes(word) on a raw duplicate-key failure: the message names
\* the index and quotes the colliding value.
Substrings ==
    {<<"username", "username">>, <<"username2", "username">>,
     <<"username@test.com", "username">>}

ErrMessageIncludes(err, word) ==
    \/ word = err.text
    \/ word = err.index
    \/ <<err.value, word>> \in Substrings

\* catch blocks of createUser and updateUser
TranslateError(r, err) ==
    IF ErrMessageIncludes(err, "username") /\ ErrMessageIncludes(err, "duplicate key")
    THEN Throw(r, "UsernameAlreadyExistsError", "Username already exists")
    ELSE IF ErrMessageIncludes(err, "email") /\ ErrMessageIncludes(err, "duplicate key")
    THEN Throw(r, "EmailAlreadyExistsError", "Email already exists")
    ELSE Throw(r, "UserValidationError", err.text)

\* Payload of agenda.now('email', ...) built by sendConfirmationEmail.
sendConfirmationEmail(user, confirmationToken) ==
    [subject |-> "Activate your account", recipient |-> user.email,
     token |-> confirmationToken, user |-> user]

---------------------------------------------------------------------------
(* Register *)

\* Mutant: four characters are enough.
createUserPasswordTooShort_four(password) == Len(password) < 4

\* Line 154: user.password.length < 8
createUserPasswordTooShort(password) == Len(password) < 8

\* user: [username, email, password]; key: the unique index the store reports
\* when the insert collides (an element of DuplicateKeys), NoString otherwise.
createUser(user, req, key) ==
    LET r == Response("createUser")
        u == [username |-> user.username, email |-> user.email,
              password |-> user.password, verificationToken |-> nextToken]
        doc == UserNewDoc(nextId, u)
    IN  IF user.password = NoString
        THEN Same @@ [resp |-> Throw(r, "UserValidationError", "Please provide a password!")]
        ELSE IF createUserPasswordTooShort(user.password)
        THEN Same @@ [resp |-> Throw(r, "UserValidationError",
                          "The password must contain at least 8 characters!")]
        ELSE IF key # NoString
        THEN Same @@ [resp |-> TranslateError(r, DuplicateKeyError(key, doc[key]))]
        ELSE [Same EXCEPT !.users = [i \in UserIds |-> IF i = nextId THEN doc ELSE users[i]],
                          !.nextId = nextId + 1,
                          !.nextToken = nextToken + 1,
                          !.jobs = Append(jobs, sendConfirmationEmail(u, nextToken))]
             \* line 169 returns the submitted object next to the notifications
             @@ [resp |-> [r EXCEPT !.user = u, !.notifications =
                    <<Notification("success", "User created!"),
                      Notification("info",
                        "You will receive a confirmation link at your email address in a few minutes.")>>]]

---------------------------------------------------------------------------
(* Login *)

\* The failure User.sign raises when the password does not verify.
UserSignError(r) == Throw(r, "UserNotFound", "Wrong credentials!")

\* Mutant: an unknown login string gets a message of its own.
loginUnknown_told(r) == Throw(r, "UserNotFound", "Unknown user!")

\* Mutant: the refused request gets its cookie set again.
loginUnknown_setsCookie(r) ==
    [Throw(r, "UserNotFound", "Wrong credentials!") EXCEPT !.setCookie = r.presented]

\* Line 361: neither an email nor a username matches.
loginUnknown(r) == Throw(r, "UserNotFound", "Wrong credentials!")

\* Mutant: the session of the presented cookie is left in place.
loginSessions_keepsPresented(S, userId, cookie, fresh) ==
    SessionCreateSession(SessionRemoveOutdatedSessions(S, userId), userId, fresh)

\* Mutant: outdated sessions are left in place.
loginSessions_keepsOutdated(S, userId, cookie, fresh) ==
    SessionCreateSession(
        IF cookie # NoToken THEN SessionRemoveSession(S, userId, cookie) ELSE S,
        userId, fresh)

\* Lines 364-370: the presented session goes, outdated ones go, a new one comes.
loginSessions(S, userId, cookie, fresh) ==
    LET S1 == IF cookie # NoToken THEN SessionRemoveSession(S, userId, cookie) ELSE S
        S2 == SessionRemoveOutdatedSessions(S1, userId)
    IN  SessionCreateSession(S2, userId, fresh)

\* Mutant: the cookie of the request is sent back.
loginCookie_keeps(req, refreshToken) == req.cookie

\* Line 371: the cookie carries the new session's refresh token.
loginCookie(req, refreshToken) == refreshToken

login(loginStr, password, req) ==
    LET r == [Response("login") EXCEPT !.presented = req.cookie]
        emailExists == UserExists("email", loginStr)
        usernameExists == UserExists("username", loginStr)
        doc == IF emailExists THEN UserGetUser("email", loginStr)
               ELSE UserGetUser("username", loginStr)
    IN  IF ~emailExists /\ ~usernameExists
        THEN Same @@ [resp |-> loginUnknown(r)]
        ELSE IF ~UserIsPasswordValid(doc, password)
        THEN Same @@ [resp |-> UserSignError(r)]
        ELSE [Same EXCEPT !.sessions = loginSessions(sessions, doc._id, req.cookie,
                                                     nextToken),
                          !.nextToken = nextToken + 1,
                          !.issued = issued \cup {UserSignClaims(doc)}]
             @@ [resp |-> [r EXCEPT !.setCookie = loginCookie(req, nextToken),
                                    !.token = UserSignClaims(doc)]]

---------------------------------------------------------------------------
(* Refresh *)

\* The failure updateSession raises when no session matches.
SessionUpdateSessionError(r) == Throw(r, "UserNotFound", "Session not found")

\* Mutant: a new session is created beside the presented one.
refreshTokensRotate_creates(S, user, session, fresh) ==
    [found |-> TRUE, sessions |-> SessionCreateSession(S, user._id, fresh)]

\* Line 464: the session found by the lookup is rotated.
refreshTokensRotate(S, user, session, fresh) ==
    SessionUpdateSession(S, user._id, session.refreshToken, fresh)

\* Line 462
refreshTokensLive(user, session) ==
    user # NoDoc /\ session # NoSession /\ now < session.expiryDate

refreshTokens(req) ==
    LET r == Response("refreshTokens")
        found == SessionGetUserAndSessionFromRefreshToken(sessions, req.cookie)
        user == found.user
        session == found.session
        rotated == refreshTokensRotate(sessions, user, session, nextToken)
    IN  IF refreshTokensLive(user, session) /\ ~rotated.found
        THEN Same @@ [resp |-> SessionUpdateSessionError(r)]
        ELSE IF refreshTokensLive(user, session)
        THEN [Same EXCEPT !.sessions = rotated.sessions,
                          !.nextToken = nextToken + 1,
                          !.issued = issued \cup {UserSignClaims(user)},
                          !.spent = spent \cup
                              {Spent("refresh", user._id, session.refreshToken)}]
             @@ [resp |-> [r EXCEPT !.setCookie = nextToken,
                                    !.token = UserSignClaims(user)]]
        ELSE Same @@ [resp |-> Throw(r, "UserNotFound", "Please login!")]

---------------------------------------------------------------------------
(* UpdateMe *)

\* The fields of userUpdates that carry a value (absent fields are NoString).
Present(userUpdates, fields) ==
    [f \in {g \in fields : userUpdates[g] # NoString} |-> userUpdates[f]]

\* Mutant: the bearer token alone is enough.
updateUserAuthorized_bearerOnly(req) == req.user # Anonymous

\* Line 262: authenticated context and a valid session for the cookie.
updateUserAuthorized(req) ==
    req.user # Anonymous /\ SessionIsValid(sessions, req.user._id, req.cookie)

\* Line 268: a password change that has to be verified.
updateUserChecksPassword(userUpdates) ==
    userUpdates.password # NoString
        /\ userUpdates.password # userUpdates.previousPassword

\* Line 269: the document the previous password is verified against.
updateUserPasswordOwner(req) == UserGetUser("email", req.user.email)

\* Line 281: the update demotes the account and mails a fresh token.
updateUserDemotes(userUpdates, req) ==
    req.user.verified /\ userUpdates.email # NoString

\* userUpdates: [username, email, password, previousPassword]; key as in createUser.
updateUser(userUpdates, req, key) ==
    LET r == [Response("updateUser") EXCEPT !.presented = req.cookie]
        target == UserGetUser("_id", req.user._id)
        patch == IF updateUserDemotes(userUpdates, req)
                 THEN Present(userUpdates, {"username", "email", "password"})
                        @@ [verificationToken |-> nextToken, verified |-> FALSE]
                 ELSE Present(userUpdates, {"username", "email", "password"})
        doc == UserApplyPatch(target, patch)
        reqUser == UserGetUserNonInternalFields(doc)
        ok == [r EXCEPT !.token = reqUser, !.notifications =
                 <<Notification("success", "User information updated!")>>]
    IN  IF ~updateUserAuthorized(req)
        THEN Same @@ [resp |-> [Throw(r, "UserNotFound", "Please login!")
                                  EXCEPT !.status = 401]]
        ELSE IF updateUserChecksPassword(userUpdates)
                /\ ~UserIsPasswordValid(updateUserPasswordOwner(req),
                                        userUpdates.previousPassword)
        THEN Same @@ [resp |-> Throw(r, "WrongPasswordError",
                                     "Your previous password is wrong!")]
        ELSE IF updateUserChecksPassword(userUpdates) /\ Len(userUpdates.password) < 8
        THEN Same @@ [resp |-> Throw(r, "UserValidationError",
                          "The password must contain at least 8 characters!")]
        ELSE IF target = NoDoc
        THEN \* the account is gone: the update matches nothing, and mailing
             \* to the empty req.user raises a TypeError the catch block wraps
             IF updateUserDemotes(userUpdates, req)
             THEN Same @@ [resp |-> Throw(r, "UserValidationError", "TypeError")]
             ELSE Same @@ [resp |-> [ok EXCEPT !.token = Anonymous]]
        ELSE IF key # NoString
        THEN Same @@ [resp |-> TranslateError(r, DuplicateKeyError(key, doc[key]))]
        ELSE IF updateUserDemotes(userUpdates, req)
        THEN [Same EXCEPT !.users = [users EXCEPT ![target._id] = doc],
                          !.nextToken = nextToken + 1,
                          !.jobs = Append(jobs, sendConfirmationEmail(reqUser, nextToken))]
             @@ [resp |-> [ok EXCEPT !.notifications = Append(@,
                    Notification("info",
                      "You will receive a confirmation link at your email address in a few minutes."))]]
        ELSE [Same EXCEPT !.users = [users EXCEPT ![target._id] = doc]]
             @@ [resp |-> ok]

---------------------------------------------------------------------------
(* Password recovery *)

\* Mutant: an authenticated caller is served like an anonymous one.
sendPasswordRecoveryEmailLoggedIn_never(req) == FALSE

\* Line 393: req.user !== undefined
sendPasswordRecoveryEmailLoggedIn(req) == req.user # Anonymous

\* Mutant: the date of an earlier request is kept.
sendPasswordRecoveryEmailPatch_keepsDate(passwordRecoveryToken) ==
    [passwordRecoveryToken |-> passwordRecoveryToken]

\* Lines 401-403: the fields written on the user with that email.
sendPasswordRecoveryEmailPatch(passwordRecoveryToken) ==
    [passwordRecoveryToken |-> passwordRecoveryToken,
     passwordRecoveryRequestDate |-> now]

\* Mutant: the link carries the token the user held before the request.
sendPasswordRecoveryEmailJob_staleLink(email, passwordRecoveryToken, user) ==
    [subject |-> "Password Recovery", recipient |-> email,
     token |-> UserGetUser("email", email).passwordRecoveryToken, user |-> user]

\* Lines 412-421: the payload of agenda.now('email', ...).
sendPasswordRecoveryEmailJob(email, passwordRecoveryToken, user) ==
    [subject |-> "Password Recovery", recipient |-> email,
     token |-> passwordRecoveryToken, user |-> user]

sendPasswordRecoveryEmail(email, req) ==
    LET r == [Response("sendPasswordRecoveryEmail")
                EXCEPT !.notifications = <<Notification("info",
                  "If your email address exists in our database, you will receive a password recovery link at your email address in a few minutes.")>>]
        target == UserGetUser("email", email)
        doc == UserApplyPatch(target, sendPasswordRecoveryEmailPatch(nextToken))
    IN  IF sendPasswordRecoveryEmailLoggedIn(req)
        THEN Same @@ [resp |-> [Throw(r, "AlreadyLoggedInError", "Oups, you are already logged in!")
                                  EXCEPT !.notifications = <<>>]]
        ELSE IF ~UserExists("email", email)
        THEN Same @@ [resp |-> r]
        ELSE [Same EXCEPT !.users = [users EXCEPT ![target._id] = doc],
                          !.nextToken = nextToken + 1,
                          !.jobs = Append(jobs,
                              sendPasswordRecoveryEmailJob(email, nextToken, doc))]
             @@ [resp |-> r]

\* Lines 231-234: whole minutes between the recorded request and now.
recoverPasswordMinutes(passwordRecoveryRequestDate) ==
    LET resetDate == passwordRecoveryRequestDate * MsPerTick
        actualDate == now * MsPerTick
        diff == IF actualDate >= resetDate THEN actualDate - resetDate
                ELSE resetDate - actualDate
    IN  (diff \div 1000) \div 60

\* Mutant: the link is still good at exactly the delay.
recoverPasswordTooLate_after(minutes) == minutes > DELAY_TO_CHANGE_PASSWORD_IN_MINUTS

\* Line 235
recoverPasswordTooLate(minutes) == minutes >= DELAY_TO_CHANGE_PASSWORD_IN_MINUTS

\* Mutant: the token and its date stay on the record.
recoverPasswordPatch_keepsToken(password) == [password |-> password]

\* Lines 238-241: the patch written on success.
recoverPasswordPatch(password) ==
    [password |-> password, passwordRecoveryToken |-> NoToken,
     passwordRecoveryRequestDate |-> NoDate]

recoverPassword(password, passwordRecoveryToken) ==
    LET r == [Response("recoverPassword") EXCEPT !.presented = passwordRecoveryToken]
        user == UserGetUser("passwordRecoveryToken", passwordRecoveryToken)
    IN  IF Len(password) < 8
        THEN Same @@ [resp |-> Throw(r, "UserValidationError",
                          "The password must contain at least 8 characters!")]
        ELSE IF ~UserExists("passwordRecoveryToken", passwordRecoveryToken)
        THEN Same @@ [resp |-> Throw(r, "UserNotFound", "Unvalid token!")]
        ELSE IF recoverPasswordTooLate(
                    recoverPasswordMinutes(user.passwordRecoveryRequestDate))
        THEN Same @@ [resp |-> Throw(r, "UpdatePasswordTooLateError",
                          "This link has expired, please ask a new one.")]
        ELSE [Same EXCEPT !.users = [users EXCEPT ![user._id] =
                              UserApplyPatch(user, recoverPasswordPatch(password))],
                          !.spent = spent \cup
                              {Spent("recovery", user._id, passwordRecoveryToken)}]
             @@ [resp |-> [r EXCEPT !.notifications =
                    <<Notification("success", "Your password is updated!")>>]]

---------------------------------------------------------------------------
(* Email confirmation *)

\* Mutant: the update is not narrowed to the user the token belongs to.
confirmEmailTarget_first(user) == UserGetUser("verified", FALSE)

\* Line 122: the update is filtered by the email of the user the token found.
confirmEmailTarget(user) == UserGetUser("email", user.email)

\* Mutant: the token stays on the record.
confirmEmailPatch_keepsToken == [verified |-> TRUE]

\* Line 122: the patch written on success.
confirmEmailPatch == [verificationToken |-> NoToken, verified |-> TRUE]

\* token is req.query.token; a request without one carries NoToken, the value
\* a cleared verificationToken has in the store.
confirmEmail(token) ==
    LET r == [Response("confirmEmail") EXCEPT !.presented = token]
        user == UserGetUser("verificationToken", token)
        target == confirmEmailTarget(user)
    IN  IF ~UserExists("verificationToken", token)
        THEN Same @@ [resp |-> [r EXCEPT !.notifications =
                    <<Notification("error", "This link is not valid!")>>]]
        ELSE IF target = NoDoc
        THEN Same @@ [resp |-> [r EXCEPT !.notifications =
                    <<Notification("success", "You are now verified!")>>]]
        ELSE [Same EXCEPT !.users = [users EXCEPT ![target._id] =
                    UserApplyPatch(target, confirmEmailPatch)],
                          !.spent = IF token = NoToken THEN spent
                                    ELSE spent \cup {Spent("verification", target._id, token)}]
             @@ [resp |-> [r EXCEPT !.notifications =
                    <<Notification("success", "You are now verified!")>>]]

\* Mutant: the flag is read from the bearer token.
resendConfirmationEmailConfirmed_claim(req, user) == req.user.verified

\* Line 194: the flag is read from the stored record.
resendConfirmationEmailConfirmed(req, user) == user.verified

resendConfirmationEmail(req) ==
    LET r == Response("resendConfirmationEmail")
        user == UserGetUser("_id", req.user._id)
    IN  IF req.user = Anonymous
        THEN Same @@ [resp |-> Throw(r, "UserNotFound", "Please login!")]
        ELSE IF user = NoDoc
        THEN Same @@ [resp |-> Throw(r, "UserNotFound", "User not found")]
        ELSE IF resendConfirmationEmailConfirmed(req, user)
        THEN Same @@ [resp |-> Throw(r, "EmailAlreadyConfirmedError",
                          "Your email adress has already been confirmed.")]
        ELSE [Same EXCEPT !.jobs = Append(jobs,
                    sendConfirmationEmail(req.user, user.verificationToken))]
             @@ [resp |-> [r EXCEPT !.notifications = <<Notification("success",
                    "You will receive a confirmation link at your email address in a few minutes.")>>]]

---------------------------------------------------------------------------
(* DeleteMe *)

\* removeUser({ _id }): the user document goes; the user collection is all
\* the operation touches.
UserRemoveUser(id) == [i \in UserIds |-> IF i = id THEN NoDoc ELSE users[i]]

\* Mutant: any password will do.
deleteUserPasswordValid_any(password, req) == UserExists("_id", req.user._id)

\* Line 329: the password is verified against the record with the caller's id.
deleteUserPasswordValid(password, req) ==
    UserIsPasswordValid(UserGetUser("_id", req.user._id), password)

deleteUser(password, req) ==
    LET r == Response("deleteUser")
        user == UserGetUser("_id", req.user._id)
    IN  IF req.user = Anonymous
        THEN Same @@ [resp |-> Throw(r, "UserNotFound", "Please login!")]
        ELSE IF ~deleteUserPasswordValid(password, req)
        THEN Same @@ [resp |-> Throw(r, "WrongPasswordError", "You entered a wrong password")]
        ELSE [Same EXCEPT !.users = UserRemoveUser(user._id)]
             @@ [resp |-> [r EXCEPT !.notifications =
                    <<Notification("success", "Your account has been deleted.")>>]]

---------------------------------------------------------------------------
(* The service: every handler runs as one step *)

Idle == Response("idle")

\* A client's request while it is between two awaits: where it stands, what
\* it was called with, what it has read so far, and its response once done.
NoCall ==
    [pc |-> "idle", op |-> "none", req |-> [user |-> Anonymous, cookie |-> NoToken],
     args |-> <<>>, user |-> NoDoc, session |-> NoSession, flag |-> FALSE,
     token |-> NoToken, resp |-> Idle]

InitWith(logFile) ==
    /\ users = [i \in UserIds |-> NoDoc]
    /\ nextId = 1
    /\ sessions = {}
    /\ nextToken = 1
    /\ now = 0
    /\ issued = {}
    /\ jobs = <<>>
    /\ resp = Idle
    /\ calls = [c \in Clients |-> NoCall]
    /\ spent = {}
    /\ outcomes = <<>>
    /\ emailNotSentLogFile = logFile
    /\ emailNotSentLog = <<>>
    /\ events = {}

Init == InitWith(FALSE)

\* The handler's outcome becomes the state; the guard keeps the model finite.
Commit(o) ==
    /\ o.nextId <= MaxUsers + 1
    /\ o.nextToken <= MaxTokens + 1
    /\ Len(o.jobs) <= MaxJobs
    /\ users' = o.users
    /\ nextId' = o.nextId
    /\ sessions' = o.sessions
    /\ nextToken' = o.nextToken
    /\ issued' = o.issued
    /\ jobs' = o.jobs
    /\ resp' = o.resp
    /\ spent' = o.spent
    /\ UNCHANGED <<now, calls, outcomes, emailNotSentLogFile, emailNotSentLog, events>>

\* A request: the verified bearer claims (or none) and the refreshToken cookie.
Requests ==
    {[user |-> c, cookie |-> t] : c \in issued \cup {Anonymous}, t \in 0..(nextToken - 1)}

AnonymousRequests == {[user |-> Anonymous, cookie |-> NoToken]}

\* A client that presents a bearer token with the cookie of one of its sessions.
ClientRequests ==
    {r \in Requests : \E s \in sessions :
        s.userId = r.user._id /\ s.refreshToken = r.cookie}

Tokens == 1..(nextToken - 1)

RegisterInputs ==
    [username : Usernames, email : Emails, password : Passwords \cup {NoString}]

UpdateInputs ==
    [username : Usernames \cup {NoString}, email : Emails \cup {NoString},
     password : Passwords \cup {NoString}, previousPassword : Passwords \cup {NoString}]

\* The index the store reports for a colliding write.
Keys(id, doc) ==
    IF DuplicateKeys(id, doc) = {} THEN {NoString} ELSE DuplicateKeys(id, doc)

Register(inputs, reqs) ==
    \E user \in inputs, req \in reqs :
        \E key \in Keys(nextId, user) : Commit(createUser(user, req, key))

Login(logins, passwords, reqs) ==
    \E loginStr \in logins, password \in passwords, req \in reqs :
        Commit(login(loginStr, password, req))

Refresh(reqs) == \E req \in reqs : Commit(refreshTokens(req))

UpdateMe(inputs, reqs) ==
    \E userUpdates \in inputs, req \in reqs :
        \E key \in Keys(req.user._id,
                        UserApplyPatch(UserGetUser("_id", req.user._id),
                            Present(userUpdates, {"username", "email"}))) :
            Commit(updateUser(userUpdates, req, key))

SendPasswordRecoveryEmail(emails, reqs) ==
    \E email \in emails, req \in reqs : Commit(sendPasswordRecoveryEmail(email, req))

RecoverPassword(passwords) ==
    \E password \in passwords, t \in Tokens : Commit(recoverPassword(password, t))

ConfirmEmail == \E t \in Tokens \cup {NoToken} : Commit(confirmEmail(t))

ResendConfirmation(reqs) == \E req \in reqs : Commit(resendConfirmationEmail(req))

DeleteMe(passwords, reqs) ==
    \E password \in passwords, req \in reqs : Commit(deleteUser(password, req))

Tick ==
    /\ \E t \in TimePoints : t > now /\ now' = t
    /\ resp' = Idle
    /\ UNCHANGED <<users, nextId, sessions, nextToken, issued, jobs, calls, spent, outcomes, emailNotSentLogFile, emailNotSentLog, events>>

\* jobs/email.ts lines 17-26: the worker runs the next job of the queue.
\* Mailer.send either delivers or throws; a failure is logged, appended to
\* the file when one is configured, and swallowed.
EmailJob ==
    /\ Len(outcomes) < Len(jobs)
    /\ \E delivered \in BOOLEAN :
        LET data == jobs[Len(outcomes) + 1]
        IN  /\ outcomes' = Append(outcomes, IF delivered THEN "sent" ELSE "failed")
            /\ emailNotSentLog' =
                    IF ~delivered /\ emailNotSentLogFile
                    THEN Append(emailNotSentLog, data)
                    ELSE emailNotSentLog
    /\ UNCHANGED <<users, nextId, sessions, nextToken, now, issued, jobs, resp, calls,
                   spent, emailNotSentLogFile, events>>

Next ==
    \/ Register(RegisterInputs, Requests)
    \/ Login(Emails \cup Usernames, Passwords, Requests)
    \/ Refresh(Requests)
    \/ UpdateMe(UpdateInputs, Requests)
    \/ SendPasswordRecoveryEmail(Emails, Requests)
    \/ RecoverPassword(Passwords)
    \/ ConfirmEmail
    \/ ResendConfirmation(Requests)
    \/ DeleteMe(Passwords, Requests)
    \/ EmailJob
    \/ Tick

Spec == Init /\ [][Next]_vars

---------------------------------------------------------------------------
(* Password recovery on its own: anonymous callers, the clock running *)

NextRecovery ==
    \/ Register([username : Usernames, email : Emails, password : {"password"}],
                AnonymousRequests)
    \/ SendPasswordRecoveryEmail(Emails, AnonymousRequests)
    \/ RecoverPassword({"toto", "password2"})
    \/ Tick

SpecRecovery == Init /\ [][NextRecovery]_vars

---------------------------------------------------------------------------
(* Sessions: login, refresh, expiry, and UpdateMe as the session's consumer *)

NextSession ==
    \/ Register([username : Usernames, email : Emails, password : {"password"}],
                AnonymousRequests)
    \/ Login(Emails, {"password", "password2"}, Requests)
    \/ Refresh(Requests)
    \/ UpdateMe([username : {NoString}, email : {NoString},
                 password : {"password2"}, previousPassword : {"password"}], Requests)
    \/ Tick

SpecSession == Init /\ [][NextSession]_vars

---------------------------------------------------------------------------
(* Accounts: registration, verification and UpdateMe with every input *)

AccountUpdateInputs ==
    [username : {NoString}, email : Emails \cup {NoString},
     password : Passwords \cup {NoString}, previousPassword : Passwords \cup {NoString}]

\* The accounts of the test suite, each at either address, and one
\* registration that fails validation.
AccountRegisterInputs ==
    {[username |-> "username", email |-> e, password |-> "password"] : e \in Emails}
        \cup {[username |-> "username2", email |-> e, password |-> "password2"] : e \in Emails}
        \cup {[username |-> "username2", email |-> "test2@test.com", password |-> "toto"]}

NextAccount ==
    \/ Register(AccountRegisterInputs, AnonymousRequests)
    \/ Login(Emails, {"password", "password2"}, AnonymousRequests)
    \/ ConfirmEmail
    \/ UpdateMe(AccountUpdateInputs, ClientRequests)

SpecAccount == Init /\ [][NextAccount]_vars

---------------------------------------------------------------------------
(* Account lifecycle: registration, verification, recovery, deletion, and    *)
(* the sessions and bearer tokens that outlive them                          *)

\* Requests that carry a bearer token (or none) and no cookie.
BearerRequests == {[user |-> c, cookie |-> NoToken] : c \in issued \cup {Anonymous}}

\* Requests that carry only a refreshToken cookie (or none).
CookieRequests == {[user |-> Anonymous, cookie |-> t] : t \in 0..(nextToken - 1)}

LifecycleRegisterInputs ==
    {[username |-> "username", email |-> "test@test.com", password |-> "password"],
     [username |-> "username2", email |-> "test2@test.com", password |-> "password2"]}

LifecycleUpdateInputs ==
    [username : {NoString}, email : Emails, password : {NoString},
     previousPassword : {NoString}]

NextLifecycle ==
    \/ Register(LifecycleRegisterInputs, AnonymousRequests)
    \/ Login(Emails, {"password", "password2"}, AnonymousRequests)
    \/ Refresh(CookieRequests)
    \/ ConfirmEmail
    \/ ResendConfirmation(BearerRequests)
    \/ UpdateMe(LifecycleUpdateInputs, ClientRequests)
    \/ SendPasswordRecoveryEmail(Emails, BearerRequests)
    \/ RecoverPassword({"password2"})
    \/ DeleteMe({"password", "password2"}, BearerRequests)

SpecLifecycle == Init /\ [][NextLifecycle]_vars

---------------------------------------------------------------------------
(* Colliding writes: Register and UpdateMe with an address whose text holds  *)
(* the name of the other unique field                                        *)

CollisionEmails == {"test@test.com", "username@test.com"}

CollisionRegisterInputs ==
    [username : Usernames, email : CollisionEmails, password : {"password"}]

CollisionUpdateInputs ==
    [username : Usernames \cup {NoString}, email : CollisionEmails \cup {NoString},
     password : {NoString}, previousPassword : {NoString}]

NextCollision ==
    \/ Register(CollisionRegisterInputs, AnonymousRequests)
    \/ Login(CollisionEmails, {"password"}, AnonymousRequests)
    \/ UpdateMe(CollisionUpdateInputs, ClientRequests)

SpecCollision == Init /\ [][NextCollision]_vars

---------------------------------------------------------------------------
(* Notification dispatch: the handlers that enqueue and the worker that     *)
(* delivers, with and without a configured log file                         *)

InitDispatch == \E logFile \in BOOLEAN : InitWith(logFile)

NextDispatch ==
    \/ Register(LifecycleRegisterInputs, AnonymousRequests)
    \/ Login(Emails, {"password", "password2"}, AnonymousRequests)
    \/ ConfirmEmail
    \/ ResendConfirmation(BearerRequests)
    \/ UpdateMe(LifecycleUpdateInputs, ClientRequests)
    \/ SendPasswordRecoveryEmail(Emails, AnonymousRequests)
    \/ EmailJob

SpecDispatch == InitDispatch /\ [][NextDispatch]_vars

---------------------------------------------------------------------------
(* The bearer middleware in front of the router: requests arrive with an     *)
(* Authorization header, the clock running                                   *)

\* config.privateKey and config.publicKey, the key pair of the service.
privateKey == "privateKey"

publicKey == "publicKey"

\* The private key of somebody else.
ForeignKey == "foreignKey"

\* A word of a header that is no signed token.
Word(text) ==
    [text |-> text, payload |-> Anonymous, key |-> NoString, expiryDate |-> NoDate]

\* A token: the claims, the private key that signed them, the expiry.
Signed(payload, key, expiryDate) ==
    [text |-> "jwt", payload |-> payload, key |-> key, expiryDate |-> expiryDate]

\* bearer[1] of a header of one word.
Undefined == Word("undefined")

\* verify(token, publicKey): the claims when the signature answers to the key
\* and the token is not out of date; every failure is the same
\* InvalidTokenError.
UserVerify(token, key) ==
    IF token.key = privateKey /\ key = publicKey /\ now < token.expiryDate
    THEN [ok |-> TRUE, claims |-> token.payload]
    ELSE [ok |-> FALSE, claims |-> Anonymous]

\* Mutant: the claims are read from the token without verification.
bearerMiddleware_decodes(authorization) ==
    [user |-> IF Len(authorization) >= 2 THEN authorization[2].payload ELSE Anonymous,
     next |-> TRUE]

\* GraphQLAuthService.ts lines 77-89.  authorization is the header split at
\* its spaces; user is req.user after the middleware, next tells that next()
\* was called.
bearerMiddleware(authorization) ==
    LET bearer == authorization
        bearerToken == IF Len(bearer) >= 2 THEN bearer[2] ELSE Undefined
        user == UserVerify(bearerToken, publicKey)
    IN  [user |-> IF authorization # NoHeader /\ user.ok THEN user.claims ELSE Anonymous,
         next |-> TRUE]

\* The lifetime of a bearer token is a setting of the credential store; the
\* tokens presented expire early or late in the range of the clock.
BearerExpiries == {1, 120}

\* Tokens the service signed.
ServiceTokens == {Signed(c, privateKey, t) : c \in issued, t \in BearerExpiries}

\* Tokens somebody else signed, with claims of their choice.
ForgedTokens ==
    {Signed(c, ForeignKey, t) :
        c \in issued \cup {[UserSignClaims(d) EXCEPT !.verified = TRUE] : d \in Docs},
        t \in BearerExpiries}

Headers ==
    {NoHeader, <<Word("Bearer")>>}
        \cup {<<Word("Bearer"), t>> :
                 t \in ServiceTokens \cup ForgedTokens \cup {Word("garbage"), Word("")}}
        \cup {<<t>> : t \in ServiceTokens}
        \cup {<<Word("Basic"), t>> : t \in ServiceTokens}
        \cup {<<Word("Bearer"), Word(""), t>> : t \in ServiceTokens}

\* A request passes the middleware and, when next() was called, the router
\* hands it to a resolver that asks isUserLoggedIn.
BearerRequest(headers) ==
    \E authorization \in headers :
        LET m == bearerMiddleware(authorization)
            req == [user |-> m.user, cookie |-> NoToken]
            o == resendConfirmationEmail(req)
        IN  /\ m.next
            /\ Commit([o EXCEPT !.resp = [o.resp EXCEPT !.authorization = authorization,
                                                        !.context = req.user]])

NextMiddleware ==
    \/ Register(LifecycleRegisterInputs, AnonymousRequests)
    \/ Login(Emails, {"password"}, AnonymousRequests)
    \/ ConfirmEmail
    \/ BearerRequest(Headers)
    \/ Tick

SpecMiddleware == Init /\ [][NextMiddleware]_vars

---------------------------------------------------------------------------
(* Concurrent requests: Register, UpdateMe and Refresh split at their awaits. *)
(* A step is one store operation together with the synchronous code that     *)
(* leads to it from the previous await.                                       *)

Free(c) == calls[c].pc \in {"idle", "done"}

\* A finished call keeps what it was asked and what it answered.
Done(call, r) ==
    [NoCall EXCEPT !.pc = "done", !.op = call.op, !.req.cookie = call.req.cookie,
                   !.resp = r]

Begin(op, req, args) == [NoCall EXCEPT !.op = op, !.req = req, !.args = args]

\* Lines 148-158 and the catch block: validation and the insert.
RegisterCreate(c, user, req, key) ==
    LET o == createUser(user, req, key)
        call == Begin("createUser", req, user)
    IN  /\ Free(c)
        /\ o.nextId <= MaxUsers + 1
        /\ o.nextToken <= MaxTokens + 1
        /\ users' = o.users
        /\ nextId' = o.nextId
        /\ nextToken' = o.nextToken
        /\ calls' = [calls EXCEPT ![c] =
                IF o.resp.error # NoString THEN Done(call, o.resp)
                ELSE [call EXCEPT !.pc = "register:created", !.token = nextToken,
                                  !.resp = o.resp]]
        /\ UNCHANGED <<sessions, now, issued, jobs, resp, spent, outcomes, emailNotSentLogFile, emailNotSentLog, events>>

\* Lines 159-169: the job is queued once the insert has returned.
RegisterNotify(c) ==
    LET call == calls[c]
        u == [username |-> call.args.username, email |-> call.args.email,
              password |-> call.args.password, verificationToken |-> call.token]
    IN  /\ call.pc = "register:created"
        /\ Len(jobs) < MaxJobs
        /\ jobs' = Append(jobs, sendConfirmationEmail(u, call.token))
        /\ calls' = [calls EXCEPT ![c] = Done(call, call.resp)]
        /\ UNCHANGED <<users, nextId, sessions, nextToken, now, issued, resp, spent, outcomes, emailNotSentLogFile, emailNotSentLog, events>>

\* Line 460: the reverse lookup.
RefreshLookup(c, req) ==
    LET found == SessionGetUserAndSessionFromRefreshToken(sessions, req.cookie)
        call == Begin("refreshTokens", req, <<>>)
    IN  /\ Free(c)
        /\ calls' = [calls EXCEPT ![c] =
                [call EXCEPT !.pc = "refresh:found", !.user = found.user,
                             !.session = found.session]]
        /\ UNCHANGED <<users, nextId, sessions, nextToken, now, issued, jobs, resp, spent, outcomes, emailNotSentLogFile, emailNotSentLog, events>>

\* Lines 461-463: the expiry check, then the bearer token is signed again.
RefreshSign(c) ==
    LET call == calls[c]
        current == UserGetUser("_id", call.user._id)
    IN  /\ call.pc = "refresh:found"
        /\ IF refreshTokensLive(call.user, call.session)
           THEN /\ calls' = [calls EXCEPT ![c] =
                        [call EXCEPT !.pc = "refresh:signed",
                                     !.resp = [Response("refreshTokens")
                                        EXCEPT !.token = UserSignClaims(current)]]]
           ELSE /\ calls' = [calls EXCEPT ![c] = Done(call,
                        Throw(Response("refreshTokens"), "UserNotFound", "Please login!"))]
        /\ UNCHANGED <<users, nextId, sessions, nextToken, now, issued, jobs, resp, spent, outcomes, emailNotSentLogFile, emailNotSentLog, events>>

\* Lines 464-466: the rotation, then the cookie.
RefreshRotate(c) ==
    LET call == calls[c]
        rotated == refreshTokensRotate(sessions, call.user, call.session, nextToken)
        matched == rotated.found
    IN  /\ call.pc = "refresh:signed"
        /\ matched => nextToken <= MaxTokens + 1
        /\ sessions' = rotated.sessions
        /\ nextToken' = IF matched THEN nextToken + 1 ELSE nextToken
        /\ calls' = [calls EXCEPT ![c] =
                IF matched
                THEN Done(call, [call.resp EXCEPT !.setCookie = nextToken])
                ELSE Done(call, SessionUpdateSessionError(Response("refreshTokens")))]
        /\ issued' = IF matched THEN issued \cup {call.resp.token} ELSE issued
        /\ spent' = IF matched
                    THEN spent \cup {Spent("refresh", call.user._id,
                                           call.session.refreshToken)}
                    ELSE spent
        /\ UNCHANGED <<users, nextId, now, jobs, resp, outcomes, emailNotSentLogFile, emailNotSentLog, events>>

\* Line 262: the authenticated context, then Session.isValid.
UpdateBegin(c, userUpdates, req) ==
    LET call == Begin("updateUser", req, userUpdates)
        r == Response("updateUser")
    IN  /\ Free(c)
        /\ calls' = [calls EXCEPT ![c] =
                IF req.user = Anonymous
                THEN Done(call, [Throw(r, "UserNotFound", "Please login!")
                                   EXCEPT !.status = 401])
                ELSE [call EXCEPT !.pc = "update:session",
                        !.flag = SessionIsValid(sessions, req.user._id, req.cookie)]]
        /\ UNCHANGED <<users, nextId, sessions, nextToken, now, issued, jobs, resp, spent, outcomes, emailNotSentLogFile, emailNotSentLog, events>>

\* Line 287: the write, with the verification token of lines 281-285.
UpdateWrite(c, key) ==
    LET call == calls[c]
        r == Response("updateUser")
        userUpdates == call.args
        demotes == updateUserDemotes(userUpdates, call.req)
        target == UserGetUser("_id", call.req.user._id)
        patch == IF demotes
                 THEN Present(userUpdates, {"username", "email", "password"})
                        @@ [verificationToken |-> nextToken, verified |-> FALSE]
                 ELSE Present(userUpdates, {"username", "email", "password"})
        doc == UserApplyPatch(target, patch)
    IN  /\ demotes => nextToken <= MaxTokens
        /\ IF target # NoDoc /\ key # NoString
           THEN /\ calls' = [calls EXCEPT ![c] =
                        Done(call, TranslateError(r, DuplicateKeyError(key, doc[key])))]
                /\ UNCHANGED <<users, nextToken, outcomes, emailNotSentLogFile, emailNotSentLog, events>>
           ELSE /\ users' = [i \in UserIds |-> IF i = target._id THEN doc ELSE users[i]]
                /\ nextToken' = IF demotes THEN nextToken + 1 ELSE nextToken
                /\ calls' = [calls EXCEPT ![c] =
                        [call EXCEPT !.pc = "update:written", !.flag = demotes,
                                     !.token = IF demotes THEN nextToken ELSE NoToken]]
        /\ UNCHANGED <<nextId, sessions, now, issued, jobs, resp, spent, outcomes, emailNotSentLogFile, emailNotSentLog, events>>

WriteKeys(c) ==
    Keys(calls[c].req.user._id,
         UserApplyPatch(UserGetUser("_id", calls[c].req.user._id),
                        Present(calls[c].args, {"username", "email"})))

\* Lines 262-269: the session's verdict, then the previous password is
\* verified or, with no password to verify, the write is made.
UpdateAuthorized(c) ==
    LET call == calls[c]
        r == Response("updateUser")
    IN  /\ call.pc = "update:session"
        /\ IF ~call.flag
           THEN /\ calls' = [calls EXCEPT ![c] =
                        Done(call, [Throw(r, "UserNotFound", "Please login!")
                                      EXCEPT !.status = 401])]
                /\ UNCHANGED <<users, nextId, sessions, nextToken, now, issued, jobs, resp, spent, outcomes, emailNotSentLogFile, emailNotSentLog, events>>
           ELSE IF updateUserChecksPassword(call.args)
           THEN /\ calls' = [calls EXCEPT ![c] =
                        [call EXCEPT !.pc = "update:password",
                            !.flag = UserIsPasswordValid(updateUserPasswordOwner(call.req),
                                                         call.args.previousPassword)]]
                /\ UNCHANGED <<users, nextId, sessions, nextToken, now, issued, jobs, resp, spent, outcomes, emailNotSentLogFile, emailNotSentLog, events>>
           ELSE \E key \in WriteKeys(c) : UpdateWrite(c, key)

\* Lines 270-287: the password's verdict and the length policy, then the write.
UpdateVerified(c) ==
    LET call == calls[c]
        r == Response("updateUser")
    IN  /\ call.pc = "update:password"
        /\ IF ~call.flag
           THEN /\ calls' = [calls EXCEPT ![c] = Done(call,
                        Throw(r, "WrongPasswordError", "Your previous password is wrong!"))]
                /\ UNCHANGED <<users, nextId, sessions, nextToken, now, issued, jobs, resp, spent, outcomes, emailNotSentLogFile, emailNotSentLog, events>>
           ELSE IF Len(call.args.password) < 8
           THEN /\ calls' = [calls EXCEPT ![c] = Done(call,
                        Throw(r, "UserValidationError",
                              "The password must contain at least 8 characters!"))]
                /\ UNCHANGED <<users, nextId, sessions, nextToken, now, issued, jobs, resp, spent, outcomes, emailNotSentLogFile, emailNotSentLog, events>>
           ELSE \E key \in WriteKeys(c) : UpdateWrite(c, key)

\* Line 288: req.user is read back.
UpdateRead(c) ==
    LET call == calls[c]
    IN  /\ call.pc = "update:written"
        /\ calls' = [calls EXCEPT ![c] =
                [call EXCEPT !.pc = "update:read",
                             !.user = UserGetUser("_id", call.req.user._id)]]
        /\ UNCHANGED <<users, nextId, sessions, nextToken, now, issued, jobs, resp, spent, outcomes, emailNotSentLogFile, emailNotSentLog, events>>

\* Lines 289-305: the notification job and the response.
UpdateNotify(c) ==
    LET call == calls[c]
        reqUser == UserGetUserNonInternalFields(call.user)
        ok == [Response("updateUser") EXCEPT !.token = reqUser, !.notifications =
                 <<Notification("success", "User information updated!")>>]
    IN  /\ call.pc = "update:read"
        /\ IF call.flag /\ call.user = NoDoc
           THEN /\ calls' = [calls EXCEPT ![c] = Done(call,
                        Throw(Response("updateUser"), "UserValidationError", "TypeError"))]
                /\ jobs' = jobs
           ELSE IF call.flag
           THEN /\ Len(jobs) < MaxJobs
                /\ jobs' = Append(jobs, sendConfirmationEmail(reqUser, call.token))
                /\ calls' = [calls EXCEPT ![c] = Done(call,
                        [ok EXCEPT !.notifications = Append(@, Notification("info",
                           "You will receive a confirmation link at your email address in a few minutes."))])]
           ELSE /\ jobs' = jobs
                /\ calls' = [calls EXCEPT ![c] = Done(call, ok)]
        /\ UNCHANGED <<users, nextId, sessions, nextToken, now, issued, jobs, resp, spent, outcomes, emailNotSentLogFile, emailNotSentLog, events>>

ConcRegister(inputs) ==
    \E c \in Clients, user \in inputs :
        \E key \in Keys(nextId, user) :
            RegisterCreate(c, user, [user |-> Anonymous, cookie |-> NoToken], key)

\* Two clients that register and update accounts at the same time.
ConcRegisterInputs == [username : Usernames, email : Emails, password : {"password"}]

ConcUpdateInputs ==
    [username : Usernames, email : {NoString},
     password : {NoString}, previousPassword : {NoString}]
        \cup [username : {NoString}, email : Emails,
              password : {NoString}, previousPassword : {NoString}]

NextConc ==
    \/ ConcRegister(ConcRegisterInputs)
    \/ \E c \in Clients : RegisterNotify(c)
    \/ Login({"test@test.com"}, {"password"}, AnonymousRequests)
    \/ \E c \in Clients, userUpdates \in ConcUpdateInputs, req \in ClientRequests :
         UpdateBegin(c, userUpdates, req)
    \/ \E c \in Clients : UpdateAuthorized(c)
    \/ \E c \in Clients : UpdateRead(c)
    \/ \E c \in Clients : UpdateNotify(c)

SpecConc == Init /\ [][NextConc]_vars

\* Two clients that refresh at the same time.
NextConcRefresh ==
    \/ Register({[username |-> "username", email |-> "test@test.com",
                  password |-> "password"]}, AnonymousRequests)
    \/ Login(Emails, {"password"}, AnonymousRequests)
    \/ \E c \in Clients, t \in Tokens :
         RefreshLookup(c, [user |-> Anonymous, cookie |-> t])
    \/ \E c \in Clients : RefreshSign(c)
    \/ \E c \in Clients : RefreshRotate(c)

SpecConcRefresh == Init /\ [][NextConcRefresh]_vars

---------------------------------------------------------------------------
(* Claims *)

\* C1: in every reachable state, after any interleaving of concurrent Register
\* and UpdateMe requests, no two stored users share a username and no two
\* share an email.
C1_UniqueUsernameAndEmail ==
    \A i, j \in UserIds :
        (i # j /\ users[i]._id # 0 /\ users[j]._id # 0)
            => /\ users[i].username # users[j].username
               /\ users[i].email # users[j].email

\* An UpdateMe that raced with a Register for the same address and lost.
C1_Witness ==
    \E c1, c2 \in Clients :
        /\ c1 # c2
        /\ calls[c1].op = "updateUser"
        /\ calls[c1].resp.error = "EmailAlreadyExistsError"
        /\ calls[c2].pc = "register:created"
        /\ Cardinality(Docs) = 2

\* C2: once a successful Refresh has rotated a session, the refresh token it
\* was given is never accepted again: Session.isValid is false for it and a
\* Refresh that presents it fails with UserNotFound ('Please login!').
C2_RotatedTokenNeverAccepted ==
    \A h \in spent :
        h.kind = "refresh" =>
            /\ ~SessionIsValid(sessions, h.userId, h.token)
            /\ \A c \in issued \cup {Anonymous} :
                 LET o == refreshTokens([user |-> c, cookie |-> h.token])
                 IN  /\ o.resp.error = "UserNotFound"
                     /\ o.resp.message = "Please login!"
                     /\ o.resp.setCookie = NoToken
                     /\ o.sessions = sessions

\* A Refresh has failed after a rotation, while the rotated session lives on.
C2_Witness ==
    \E h \in spent :
        /\ h.kind = "refresh"
        /\ resp.op = "refreshTokens"
        /\ resp.error = "UserNotFound"
        /\ \E s \in sessions : s.userId = h.userId /\ now < s.expiryDate

\* C3: of two Refresh requests that present the same refresh token and are
\* interleaved in any order, at most one succeeds; the other fails with
\* UserNotFound; and a rotation leaves as many sessions as there were.
C3_BothDone(c1, c2) ==
    /\ c1 # c2
    /\ calls[c1].op = "refreshTokens" /\ calls[c1].pc = "done"
    /\ calls[c2].op = "refreshTokens" /\ calls[c2].pc = "done"
    /\ calls[c1].req.cookie = calls[c2].req.cookie

C3_AtMostOneRefreshWins ==
    /\ [](\A c1, c2 \in Clients :
            C3_BothDone(c1, c2) =>
                /\ ~(calls[c1].resp.error = NoString /\ calls[c2].resp.error = NoString)
                /\ calls[c1].resp.error = NoString
                     => /\ calls[c2].resp.error = "UserNotFound"
                        /\ calls[c2].resp.setCookie = NoToken)
    /\ [][\A c \in Clients :
            (calls[c].pc = "refresh:signed" /\ calls'[c].pc = "done")
                => Cardinality(sessions') = Cardinality(sessions)]_vars

\* Both requests passed the lookup; one rotated, the other found the session gone.
C3_Witness ==
    \E c1, c2 \in Clients :
        /\ C3_BothDone(c1, c2)
        /\ calls[c1].resp.error = NoString
        /\ calls[c1].resp.setCookie # NoToken
        /\ calls[c2].resp.message = "Session not found"
        /\ Cardinality(sessions) = 1

\* C4: Recover password with a known recovery token and a password of at
\* least 8 characters succeeds iff strictly less than 60 minutes (120 ticks)
\* have elapsed since the recorded request date; at 60 minutes and later it
\* fails with UpdatePasswordTooLateError and leaves the user store unchanged.
C4_RecoveryWindow ==
    \A d \in Docs, p \in {q \in Passwords : Len(q) >= 8} :
        d.passwordRecoveryToken # NoToken =>
            LET o == recoverPassword(p, d.passwordRecoveryToken)
                elapsed == (now - d.passwordRecoveryRequestDate) * MsPerTick
                limit == DELAY_TO_CHANGE_PASSWORD_IN_MINUTS * 60 * 1000
            IN  /\ o.resp.error = NoString <=> elapsed < limit
                /\ elapsed < limit => o.users[d._id].password = Hash(p)
                /\ elapsed >= limit =>
                     /\ o.resp.error = "UpdatePasswordTooLateError"
                     /\ o.users = users

\* A call at exactly 60 minutes has been refused.
C4_Witness ==
    \E d \in Docs :
        /\ d.passwordRecoveryToken # NoToken
        /\ resp.op = "recoverPassword"
        /\ resp.presented = d.passwordRecoveryToken
        /\ resp.error = "UpdatePasswordTooLateError"
        /\ (now - d.passwordRecoveryRequestDate) * MsPerTick
               = DELAY_TO_CHANGE_PASSWORD_IN_MINUTS * 60 * 1000

\* C5 as stated: after Recover password succeeded with token T, every later
\* Recover password call presenting T fails with UserNotFound ('Unvalid
\* token!') and changes no password.
C5_EveryLaterCallNotFound ==
    \A h \in spent, p \in Passwords :
        h.kind = "recovery" =>
            LET o == recoverPassword(p, h.token)
            IN  /\ o.resp.error = "UserNotFound"
                /\ o.resp.message = "Unvalid token!"
                /\ o.users = users

\* C5: a recovery token is single-use: a successful Recover password with
\* token T clears the user's passwordRecoveryToken and
\* passwordRecoveryRequestDate, and every later call presenting T changes no
\* password and fails: with UserNotFound ('Unvalid token!') when the password
\* has at least 8 characters, with UserValidationError when it is shorter.
C5_RecoveryTokenSingleUse ==
    /\ [](\A h \in spent, p \in Passwords :
            h.kind = "recovery" =>
                LET o == recoverPassword(p, h.token)
                IN  /\ o.users = users
                    /\ Len(p) >= 8 => /\ o.resp.error = "UserNotFound"
                                      /\ o.resp.message = "Unvalid token!"
                    /\ Len(p) < 8 => o.resp.error = "UserValidationError")
    /\ [][\A h \in spent' \ spent :
            h.kind = "recovery" =>
                /\ users'[h.userId].passwordRecoveryToken = NoToken
                /\ users'[h.userId].passwordRecoveryRequestDate = NoDate]_vars

\* A used token has been presented again, with a good password, and refused.
C5_Witness ==
    \E h \in spent :
        /\ h.kind = "recovery"
        /\ resp.op = "recoverPassword"
        /\ resp.presented = h.token
        /\ resp.error = "UserNotFound"

\* C6 as stated: an UpdateMe that asks for a new password different from the
\* supplied previousPassword, where previousPassword does not verify against
\* the caller's stored hash, fails with WrongPasswordError and leaves the user
\* store unchanged (so the old password still logs in and the new one does not).
C6_WrongPreviousPasswordRefused ==
    \A userUpdates \in AccountUpdateInputs, req \in ClientRequests :
        LET stored == UserGetUser("_id", req.user._id)
            o == updateUser(userUpdates, req, NoString)
        IN  ( /\ userUpdates.password # NoString
              /\ userUpdates.password # userUpdates.previousPassword
              /\ stored # NoDoc
              /\ ~UserIsPasswordValid(stored, userUpdates.previousPassword) )
                => /\ o.resp.error = "WrongPasswordError"
                   /\ o.users = users

\* C7: Login with a string that matches no user and Login with a string that
\* matches a user but with a wrong password give the identical response (same
\* error, same message 'Wrong credentials!') and change nothing.
C7_LoginFailuresIndistinguishable ==
    \A a, b \in Emails \cup Usernames, p, q \in Passwords, req \in Requests :
        ( /\ \A d \in Docs : d.email # a /\ d.username # a
          /\ \E d \in Docs : (d.email = b \/ d.username = b) /\ d.password # Hash(q) )
            => /\ login(a, p, req) = login(b, q, req)
               /\ login(a, p, req).resp.error = "UserNotFound"
               /\ login(a, p, req).resp.message = "Wrong credentials!"
               /\ login(b, q, req).sessions = sessions

\* Every address is registered, so the refused Login named a known user with
\* a wrong password.
C7_Witness ==
    /\ \A e \in Emails : \E d \in Docs : d.email = e
    /\ resp.op = "login"
    /\ resp.error = "UserNotFound"
    /\ resp.message = "Wrong credentials!"

\* C8: every Login with a user's email or username and that user's password
\* succeeds, returns a token for the public user, creates exactly one new
\* session owned by that user and sets the cookie to that session's refresh
\* token, so that Session.isValid(user id, cookie) holds right afterwards.
C8_LoginCreatesSession ==
    \A l \in Emails \cup Usernames, p \in Passwords, req \in Requests, d \in Docs :
        ((d.email = l \/ d.username = l) /\ d.password = Hash(p)) =>
            LET o == login(l, p, req)
            IN  /\ o.resp.error = NoString
                /\ o.resp.token = UserGetUserNonInternalFields(d)
                /\ o.resp.setCookie # NoToken
                /\ o.sessions \ sessions =
                      {[userId |-> d._id, refreshToken |-> o.resp.setCookie,
                        expiryDate |-> now + SessionLifetime]}
                /\ SessionIsValid(o.sessions, d._id, o.resp.setCookie)

\* A Login has succeeded beside another live session.
C8_Witness ==
    /\ resp.op = "login"
    /\ resp.error = NoString
    /\ SessionIsValid(sessions, resp.token._id, resp.setCookie)
    /\ \E s \in sessions : s.refreshToken # resp.setCookie

\* The UpdateMe inputs the authorization claim is checked with.
C9_Updates ==
    [username : {NoString, "username2"}, email : {NoString, "test2@test.com"},
     password : {NoString, "password2"}, previousPassword : {NoString, "password"}]

C10_VerifiedEmailChangeDemotes ==
    \A userUpdates \in AccountUpdateInputs, req \in ClientRequests :
        LET stored == UserGetUser("_id", req.user._id)
            o == updateUser(userUpdates, req, NoString)
            after == o.users[stored._id]
        IN  ( /\ stored # NoDoc
              /\ stored.verified
              /\ userUpdates.email # NoString
              /\ userUpdates.email # stored.email
              /\ o.resp.error = NoString
              /\ after.email = userUpdates.email )
                => /\ ~after.verified
                   /\ after.verificationToken = nextToken
                   /\ Len(o.jobs) = Len(jobs) + 1
                   /\ o.jobs[Len(o.jobs)].token = nextToken

\* C11: a user's stored verified flag goes from false to true only in a
\* Confirm email step whose request presents that user's current, non-null
\* verificationToken; no other operation sets it.
C11_VerifiedOnlyByConfirmEmail ==
    [][\A i \in UserIds :
        (users[i]._id # 0 /\ ~users[i].verified /\ users'[i].verified)
            => /\ resp'.op = "confirmEmail"
               /\ resp'.presented # NoToken
               /\ resp'.presented = users[i].verificationToken]_vars

\* A Confirm email has just verified the user whose token it presented,
\* while another account is still unverified.
C11_Witness ==
    /\ resp.op = "confirmEmail"
    /\ \E i \in UserIds :
        /\ users[i].verified
        /\ Spent("verification", i, resp.presented) \in spent
        /\ \E j \in UserIds : users[j]._id # 0 /\ ~users[j].verified

\* C12: Confirm email with a token that matches no user's verificationToken,
\* a missing token included, raises no error, renders the single error
\* notification 'This link is not valid!' and changes no user's verified flag
\* or verificationToken.
C12_UnknownTokenNotValid ==
    \A t \in Tokens \cup {NoToken} :
        (t = NoToken \/ \A d \in Docs : d.verificationToken # t)
            => LET o == confirmEmail(t)
               IN  /\ o.resp.error = NoString
                   /\ o.resp.notifications =
                        <<Notification("error", "This link is not valid!")>>
                   /\ \A i \in UserIds :
                        /\ o.users[i].verified = users[i].verified
                        /\ o.users[i].verificationToken = users[i].verificationToken

\* C13: Confirm email with a token equal to some user's verificationToken
\* sets that user's verified to true and its verificationToken to null,
\* changes no other user and renders 'You are now verified!'; the token is
\* single-use: a later Confirm email with it renders 'This link is not valid!'.
C13_ConfirmEmailVerifiesOnce ==
    /\ \A t \in Tokens : \A i \in UserIds :
        (users[i]._id # 0 /\ users[i].verificationToken = t)
            => LET o == confirmEmail(t)
               IN  /\ o.users[i] = [users[i] EXCEPT !.verified = TRUE,
                                                    !.verificationToken = NoToken]
                   /\ \A j \in UserIds \ {i} : o.users[j] = users[j]
                   /\ o.resp.error = NoString
                   /\ o.resp.notifications =
                        <<Notification("success", "You are now verified!")>>
    /\ \A s \in spent :
        s.kind = "verification"
            => LET o == confirmEmail(s.token)
               IN  /\ o.users = users
                   /\ o.resp.notifications =
                        <<Notification("error", "This link is not valid!")>>

\* A verification token that has verified its user was presented once more
\* and refused, the user still verified.
C13_Witness ==
    /\ resp.op = "confirmEmail"
    /\ resp.notifications = <<Notification("error", "This link is not valid!")>>
    /\ \E s \in spent :
        /\ s.kind = "verification"
        /\ s.token = resp.presented
        /\ users[s.userId].verified
        /\ users[s.userId].verificationToken = NoToken

\* C14: for an anonymous caller Send password-recovery email returns the same
\* result, one generic info notification and no error, whether or not the
\* email belongs to a stored user; for a caller with an authenticated context
\* it fails with AlreadyLoggedInError, changes no state and enqueues no job,
\* whatever the email.
C14_RecoveryEmailNoOracle ==
    /\ \A e1 \in Emails, e2 \in Emails : \A req \in AnonymousRequests :
        LET o1 == sendPasswordRecoveryEmail(e1, req)
            o2 == sendPasswordRecoveryEmail(e2, req)
        IN  /\ o1.resp = o2.resp
            /\ o1.resp.error = NoString
            /\ Len(o1.resp.notifications) = 1
            /\ o1.resp.notifications[1].type = "info"
    /\ \A e \in Emails : \A req \in Requests :
        req.user # Anonymous
            => LET o == sendPasswordRecoveryEmail(e, req)
               IN  /\ o.resp.error = "AlreadyLoggedInError"
                   /\ o.users = users
                   /\ o.sessions = sessions
                   /\ o.jobs = jobs
                   /\ o.nextToken = nextToken

\* A logged-in caller has just been refused for the address of a stored user,
\* after an anonymous request for a stored address had enqueued its job and
\* while the other address belongs to nobody.
C14_Witness ==
    /\ resp.op = "sendPasswordRecoveryEmail"
    /\ resp.error = "AlreadyLoggedInError"
    /\ \E k \in 1..Len(jobs) : jobs[k].subject = "Password Recovery"
    /\ \E e \in Emails : ~UserExists("email", e)

\* C15: Register with a missing password or one shorter than 8 characters
\* fails with ValidationError, creates no user and enqueues no job; a
\* verification job is enqueued by Register iff the user record was created,
\* so a Register that fails on a uniqueness violation enqueues nothing.
C15_RegisterJobIffCreated ==
    nextId <= MaxUsers =>
        \A user \in RegisterInputs, req \in AnonymousRequests :
            \A key \in Keys(nextId, user) :
                LET o == createUser(user, req, key)
                    created == o.users # users
                IN  /\ (user.password = NoString \/ Len(user.password) < 8)
                        => /\ o.resp.error = "UserValidationError"
                           /\ ~created
                           /\ o.jobs = jobs
                    /\ (o.jobs # jobs) <=> created
                    /\ created
                        => /\ o.resp.error = NoString
                           /\ o.users[nextId]._id = nextId
                           /\ o.jobs = Append(jobs, o.jobs[Len(o.jobs)])
                           /\ o.jobs[Len(o.jobs)].token = o.users[nextId].verificationToken
                    /\ (key # NoString /\ Len(user.password) >= 8)
                        => /\ o.resp.error \in {"UsernameAlreadyExistsError",
                                                "EmailAlreadyExistsError"}
                           /\ ~created
                           /\ o.jobs = jobs

\* A Register has just failed on a uniqueness violation; the queue holds
\* exactly one job for each user created so far.
C15_Witness ==
    /\ resp.op = "createUser"
    /\ resp.error \in {"UsernameAlreadyExistsError", "EmailAlreadyExistsError"}
    /\ Len(jobs) = nextId - 1
    /\ nextId > 1

\* C16: when the store rejects a Register or an UpdateMe on a uniqueness
\* constraint, the domain error names the field that collided: username gives
\* UsernameAlreadyExistsError and email gives EmailAlreadyExistsError, for
\* every stored and submitted value, an email that contains the text
\* 'username' included.
C16_ErrorNamesCollidingField ==
    LET Named(key) == IF key = "username" THEN "UsernameAlreadyExistsError"
                      ELSE "EmailAlreadyExistsError"
    IN  /\ \A user \in CollisionRegisterInputs, req \in AnonymousRequests :
            \A key \in DuplicateKeys(nextId, user) :
                createUser(user, req, key).resp.error = Named(key)
        /\ \A userUpdates \in CollisionUpdateInputs, req \in ClientRequests :
            \A key \in DuplicateKeys(req.user._id,
                            UserApplyPatch(UserGetUser("_id", req.user._id),
                                Present(userUpdates, {"username", "email"}))) :
                updateUser(userUpdates, req, key).resp.error = Named(key)

\* C17: DeleteMe removes the user record iff the caller has an authenticated
\* context and the supplied password verifies against that user's stored
\* hash; an anonymous caller gets NotFoundError ('Please login!'), a wrong
\* password gets WrongPasswordError, and in both failure cases the user store
\* is unchanged.
C17_DeleteNeedsLoginAndPassword ==
    \A password \in Passwords \cup {NoString}, req \in Requests :
        LET o == deleteUser(password, req)
            id == req.user._id
            verifies == /\ req.user # Anonymous
                        /\ UserIsPasswordValid(users[id], password)
        IN  /\ (o.users # users) <=> verifies
            /\ verifies
                => /\ o.resp.error = NoString
                   /\ o.users[id] = NoDoc
                   /\ \A j \in UserIds \ {id} : o.users[j] = users[j]
            /\ req.user = Anonymous
                => /\ o.resp.error = "UserNotFound"
                   /\ o.resp.message = "Please login!"
            /\ (req.user # Anonymous /\ ~verifies)
                => o.resp.error = "WrongPasswordError"

\* A DeleteMe has just removed one account and left the other one stored.
C17_Witness ==
    /\ resp.op = "deleteUser"
    /\ resp.error = NoString
    /\ \E i \in UserIds : i < nextId /\ users[i] = NoDoc
    /\ \E j \in UserIds : users[j]._id # 0

\* C18: after a successful DeleteMe for user U no session whose userId is U
\* remains in the session store, in every later state.
C18_NoSessionOfDeletedUser ==
    \A i \in UserIds :
        (i < nextId /\ users[i] = NoDoc) => \A s \in sessions : s.userId # i

\* C19: Refresh presenting a refresh token that matches no session, or a
\* session whose expiryDate is not later than now, fails with NotFoundError
\* ('Please login!'), issues no bearer token, sets no cookie and leaves the
\* session store unchanged; Refresh presenting a live session's token succeeds
\* without any password check.
C19_RefreshNeedsLiveSession ==
    \A req \in Requests :
        LET o == refreshTokens(req)
            live == \E s \in sessions : /\ req.cookie # NoToken
                                        /\ s.refreshToken = req.cookie
                                        /\ now < s.expiryDate
        IN  /\ ~live
                => /\ o.resp.error = "UserNotFound"
                   /\ o.resp.message = "Please login!"
                   /\ o.resp.token = Anonymous
                   /\ o.resp.setCookie = NoToken
                   /\ o.sessions = sessions
            /\ live
                => /\ o.resp.error = NoString
                   /\ o.resp.token # Anonymous
                   /\ o.resp.setCookie # NoToken

C21_FailedDeliveryEmitsEvent ==
    /\ \A req \in Requests :
        /\ \A email \in Emails :
            LET o == sendPasswordRecoveryEmail(email, req)
            IN  o.jobs # jobs => o.resp.error = NoString
        /\ LET o == resendConfirmationEmail(req)
           IN  o.jobs # jobs => o.resp.error = NoString
    /\ \A k \in 1..Len(outcomes) :
        outcomes[k] = "failed" => jobs[k] \in events

\* C22: every stored password was at least 8 characters long when it was
\* set: no Register, UpdateMe or Recover password call with a password
\* shorter than 8 characters changes or creates a stored password, for
\* UpdateMe also when the submitted password equals the submitted
\* previousPassword.
C22_NoShortPasswordStored ==
    /\ \A d \in Docs : \E p \in Passwords : Len(p) >= 8 /\ d.password = Hash(p)
    /\ \A userUpdates \in AccountUpdateInputs, req \in ClientRequests :
        Len(userUpdates.password) < 8
            => \A i \in UserIds :
                updateUser(userUpdates, req, NoString).users[i].password
                    = users[i].password
    /\ \A user \in RegisterInputs, req \in AnonymousRequests :
        Len(user.password) < 8
            => createUser(user, req, NoString).users = users
    /\ \A password \in Passwords, t \in Tokens :
        Len(password) < 8
            => recoverPassword(password, t).users = users

\* C23: for every UpdateMe call after which the caller's stored password
\* differs from before, the previousPassword supplied in that call verified
\* against the hash stored before the call; a call whose password equals its
\* previousPassword changes the stored password only if that value is the
\* current password.
C23_PasswordChangeVerified ==
    \A userUpdates \in AccountUpdateInputs, req \in ClientRequests :
        LET o == updateUser(userUpdates, req, NoString)
        IN  \A i \in UserIds :
                o.users[i].password # users[i].password
                    => /\ i = req.user._id
                       /\ UserIsPasswordValid(users[i], userUpdates.previousPassword)

\* C24: in UpdateMe the previous password is verified against the record of
\* the authenticated user, the one selected by id that the update then
\* modifies, after any sequence of operations: also when the caller has changed
\* email since the bearer token was issued and another user holds the old
\* address, the check is made against the caller's own stored hash.
C24_PreviousPasswordCheckedOnOwnRecord ==
    \A req \in ClientRequests : \A previousPassword \in Passwords :
        UserIsPasswordValid(updateUserPasswordOwner(req), previousPassword)
            = UserIsPasswordValid(UserGetUser("_id", req.user._id), previousPassword)

\* A user object that carries a password, clear or hashed.
C25_Carries(user) == "password" \in DOMAIN user /\ user.password # NoString

\* C25: in every reachable state no payload submitted to the notification job
\* queue, and no value returned by Register, contains a user's clear-text
\* password or stored password hash.
C25_NoPasswordLeavesTheStore ==
    /\ \A k \in 1..Len(jobs) : ~C25_Carries(jobs[k].user)
    /\ resp.op = "createUser" => ~C25_Carries(resp.user)

\* C26: after a successful Login whose request carried a refreshToken cookie,
\* no session (authenticated user, that cookie value) exists any more, so
\* Session.isValid is false for that pair and UpdateMe presenting the old
\* cookie fails; a cookie value that belongs to a session of a different user
\* leaves that other user's session untouched.
C26_LoginRetiresPresentedSession ==
    /\ (resp.op = "login" /\ resp.error = NoString /\ resp.presented # NoToken)
        => /\ SessionMatching(sessions, resp.token._id, resp.presented) = {}
           /\ ~SessionIsValid(sessions, resp.token._id, resp.presented)
           /\ \A userUpdates \in AccountUpdateInputs, c \in issued :
                c._id = resp.token._id
                    => LET o == updateUser(userUpdates,
                                    [user |-> c, cookie |-> resp.presented], NoString)
                       IN  o.resp.error = "UserNotFound" /\ o.users = users
    /\ \A l \in Emails, p \in Passwords, req \in Requests :
        LET o == login(l, p, req)
        IN  o.resp.error = NoString
                => \A s \in sessions :
                        s.userId # o.resp.token._id => s \in o.sessions

\* A user who was logged in has logged in again presenting the cookie of the
\* first session, before anything expired: only the new session is left.
C26_Witness ==
    /\ resp.op = "login"
    /\ resp.error = NoString
    /\ resp.presented # NoToken
    /\ resp.setCookie = resp.presented + 1
    /\ now = 0
    /\ sessions = {SessionNew(resp.token._id, resp.setCookie)}

\* C27: immediately after every successful Login of user U the session store
\* contains no session of U whose expiryDate is at or before the login time,
\* and the sessions of other users, expired or not, are unchanged.
C27_LoginPurgesOutdatedSessions ==
    /\ (resp.op = "login" /\ resp.error = NoString)
        => \A s \in sessions : s.userId = resp.token._id => now < s.expiryDate
    /\ \A l \in Emails, p \in Passwords, req \in Requests :
        LET o == login(l, p, req)
            id == o.resp.token._id
        IN  o.resp.error = NoString
                => /\ \A s \in o.sessions : s.userId = id => now < s.expiryDate
                   /\ {s \in o.sessions : s.userId # id}
                        = {s \in sessions : s.userId # id}

\* The only user has logged in, without a cookie, at the instant the session
\* of the earlier login ran out: that session is gone and the new one is there.
C27_Witness ==
    /\ resp.op = "login"
    /\ resp.error = NoString
    /\ resp.presented = NoToken
    /\ nextId = 2
    /\ resp.setCookie = 3
    /\ now = SessionLifetime
    /\ sessions = {SessionNew(resp.token._id, 3)}

\* C28: a Login that fails, on an unknown login string or on a wrong
\* password, leaves the session store unchanged and sets no cookie: it removes
\* neither the session named by the request's refreshToken cookie nor any
\* outdated session, and creates no session.
C28_FailedLoginKeepsSessions ==
    \A l \in Emails \cup Usernames, p \in Passwords, req \in Requests :
        LET o == login(l, p, req)
            known == {d \in Docs : d.email = l \/ d.username = l}
        IN  /\ (known = {} \/ \A d \in known : ~UserIsPasswordValid(d, p))
                => o.resp.error # NoString
            /\ o.resp.error # NoString
                => /\ o.sessions = sessions
                   /\ o.resp.setCookie = NoToken
                   /\ o.resp.token = Anonymous
                   /\ o.nextToken = nextToken

\* A Login has been refused although its request carried the cookie of a
\* stored session, which is outdated and still there.
C28_Witness ==
    /\ resp.op = "login"
    /\ resp.error # NoString
    /\ resp.presented # NoToken
    /\ \E s \in sessions : s.refreshToken = resp.presented /\ s.expiryDate <= now

\* C29: a user has at most one active recovery token.  When
\* sendPasswordRecoveryEmail has run twice for the same stored user, the token
\* of the earlier request is held by no user and recoverPassword refuses it
\* and changes nothing (UserNotFound, the NotFoundError of the request, for
\* every password that passes the length check of line 227, which precedes
\* the lookup); the date stored with the later token is the date of the later
\* request, which the request took from the clock, and recoverPassword
\* accepts the later token exactly while fewer than 60 minutes have passed
\* since that date.
C29_SecondRequestSupersedesFirst ==
    /\ \A e \in Emails : \A req \in AnonymousRequests :
        UserExists("email", e) /\ UserGetUser("email", e).passwordRecoveryToken # NoToken
            => LET d == UserGetUser("email", e)
                   o == sendPasswordRecoveryEmail(e, req)
               IN  /\ o.users[d._id].passwordRecoveryRequestDate = now
                   /\ o.users[d._id].passwordRecoveryToken
                          \notin {NoToken, d.passwordRecoveryToken}
                   /\ \A i \in DOMAIN o.users :
                          o.users[i] # NoDoc
                              => o.users[i].passwordRecoveryToken # d.passwordRecoveryToken
    /\ \A k1 \in 1..Len(jobs), k2 \in 1..Len(jobs) :
        /\ k1 < k2
        /\ jobs[k1].subject = "Password Recovery"
        /\ jobs[k2].subject = "Password Recovery"
        /\ jobs[k1].user._id = jobs[k2].user._id
        => /\ jobs[k1].token # jobs[k2].token
           /\ \A d \in Docs : d.passwordRecoveryToken # jobs[k1].token
           /\ \A p \in Passwords :
                LET o == recoverPassword(p, jobs[k1].token)
                IN  /\ o.resp.error # NoString
                    /\ o.users = users
                    /\ Len(p) >= 8 => o.resp.error = "UserNotFound"
           /\ \A d \in Docs :
                d.passwordRecoveryToken = jobs[k2].token
                    => /\ d._id = jobs[k2].user._id
                       /\ d.passwordRecoveryRequestDate
                              = jobs[k2].user.passwordRecoveryRequestDate
                       /\ d.passwordRecoveryRequestDate
                              >= jobs[k1].user.passwordRecoveryRequestDate
                       /\ \A p \in {q \in Passwords : Len(q) >= 8} :
                            recoverPassword(p, jobs[k2].token).resp.error = NoString
                                <=> (now - d.passwordRecoveryRequestDate) * MsPerTick
                                      < DELAY_TO_CHANGE_PASSWORD_IN_MINUTS * 60 * 1000

\* Two requests for one user, the second one later than the first; the token
\* of the second request has just been accepted at a time when 60 minutes
\* have passed since the first request, whose token was never used.
C29_Witness ==
    \E k1 \in 1..Len(jobs), k2 \in 1..Len(jobs) :
        /\ k1 < k2
        /\ jobs[k1].subject = "Password Recovery"
        /\ jobs[k2].subject = "Password Recovery"
        /\ jobs[k1].user._id = jobs[k2].user._id
        /\ jobs[k1].user.passwordRecoveryRequestDate
               < jobs[k2].user.passwordRecoveryRequestDate
        /\ (now - jobs[k1].user.passwordRecoveryRequestDate) * MsPerTick
               >= DELAY_TO_CHANGE_PASSWORD_IN_MINUTS * 60 * 1000
        /\ resp.op = "recoverPassword"
        /\ resp.error = NoString
        /\ resp.presented = jobs[k2].token
        /\ Spent("recovery", jobs[k1].user._id, jobs[k1].token) \notin spent

\* C30: sendPasswordRecoveryEmail by an anonymous caller changes state iff
\* the email belongs to a stored user.  For an unknown email the users, the
\* sessions and the jobs are unchanged.  For a known email the record of that
\* user differs from before in passwordRecoveryToken and
\* passwordRecoveryRequestDate only, the token is one no record and no earlier
\* job holds, the date is the current time, every other record is unchanged
\* (so no password is changed), and the jobs grow by exactly one
\* 'Password Recovery' job addressed to that email whose link carries the
\* token now stored.
C30_RecoveryRequestFrame ==
    \A e \in Emails : \A req \in AnonymousRequests :
        LET o == sendPasswordRecoveryEmail(e, req)
            d == UserGetUser("email", e)
        IN  /\ o.sessions = sessions
            /\ o.users # users <=> UserExists("email", e)
            /\ ~UserExists("email", e) => o.jobs = jobs /\ o.users = users
            /\ UserExists("email", e) =>
                LET after == o.users[d._id]
                IN  /\ \A i \in DOMAIN users : i # d._id => o.users[i] = users[i]
                    /\ after = [d EXCEPT
                          !.passwordRecoveryToken = after.passwordRecoveryToken,
                          !.passwordRecoveryRequestDate = after.passwordRecoveryRequestDate]
                    /\ after.password = d.password
                    /\ after.passwordRecoveryRequestDate = now
                    /\ after.passwordRecoveryToken # NoToken
                    /\ \A x \in Docs :
                          after.passwordRecoveryToken
                              \notin {x.passwordRecoveryToken, x.verificationToken}
                    /\ \A k \in 1..Len(jobs) : jobs[k].token # after.passwordRecoveryToken
                    /\ Len(o.jobs) = Len(jobs) + 1
                    /\ SubSeq(o.jobs, 1, Len(jobs)) = jobs
                    /\ o.jobs[Len(o.jobs)].subject = "Password Recovery"
                    /\ o.jobs[Len(o.jobs)].recipient = e
                    /\ o.jobs[Len(o.jobs)].token = after.passwordRecoveryToken

\* An anonymous request for the email of one of two stored users has just
\* been served: the last job is its recovery job, the token in it is on that
\* user's record with the current time, and the other user holds no recovery
\* token; one email of the model belongs to no user.
C30_Witness ==
    /\ resp.op = "sendPasswordRecoveryEmail"
    /\ resp.error = NoString
    /\ Len(jobs) > 0
    /\ jobs[Len(jobs)].subject = "Password Recovery"
    /\ \E d \in Docs, x \in Docs :
        /\ d._id # x._id
        /\ d.email = jobs[Len(jobs)].recipient
        /\ d.passwordRecoveryToken = jobs[Len(jobs)].token
        /\ d.passwordRecoveryRequestDate = now
        /\ x.passwordRecoveryToken = NoToken
        /\ x.passwordRecoveryRequestDate = NoDate

\* C31: a verification token proves control only of the address it was sent
\* to.  Whenever confirmEmail, presented with a token, sets the verified flag
\* of a user to true, the email that user has at that moment is the recipient
\* of an 'Activate your account' job that carried the presented token; so the
\* token mailed to the previous address of an unverified user who changed
\* email through updateUser no longer verifies the account.
C31_VerifiedAddressReceivedToken ==
    \A t \in Tokens :
        LET o == confirmEmail(t)
        IN  \A i \in DOMAIN users :
                /\ users[i] # NoDoc
                /\ ~users[i].verified
                /\ o.users[i] # NoDoc
                /\ o.users[i].verified
                => \E k \in 1..Len(jobs) :
                      /\ jobs[k].subject = "Activate your account"
                      /\ jobs[k].token = t
                      /\ jobs[k].recipient = o.users[i].email

\* C32: a request carries an authenticated context only if the bearer token
\* of its Authorization header passed verification against the public key.
\* For every header, the middleware calls next(); req.user is set only when
\* the second word of the header is a token signed with the private key of
\* the service and not out of date, and is then the claims of that token,
\* claims the service issued; a request with no header, with a header of one
\* word, or with a token that is malformed, signed with another key or out of
\* date goes on with req.user undefined, and the resolver it reaches treats
\* it as anonymous.
C32_ContextOnlyFromVerifiedToken ==
    /\ \A h \in Headers :
        LET m == bearerMiddleware(h)
            failing == \/ Len(h) < 2
                       \/ h[2].text # "jwt"
                       \/ h[2].key # privateKey
                       \/ now >= h[2].expiryDate
        IN  /\ m.next
            /\ failing => m.user = Anonymous
            /\ m.user # Anonymous =>
                  /\ ~failing
                  /\ m.user = h[2].payload
                  /\ m.user \in issued
            /\ LET o == resendConfirmationEmail([user |-> m.user, cookie |-> NoToken])
               IN  failing => /\ o.resp.error = "UserNotFound"
                              /\ o.resp.message = "Please login!"
                              /\ o.jobs = jobs
    /\ resp.op = "resendConfirmationEmail" =>
        /\ resp.authorization \in Headers
        /\ resp.context = bearerMiddleware(resp.authorization).user
        /\ resp.context = Anonymous => resp.error = "UserNotFound"

\* A request whose header holds a token the service signed for a stored user,
\* now out of date, has been served: it reached the resolver, which answered
\* as to an anonymous caller.
C32_Witness ==
    /\ resp.op = "resendConfirmationEmail"
    /\ Len(resp.authorization) = 2
    /\ resp.authorization[1] = Word("Bearer")
    /\ resp.authorization[2].key = privateKey
    /\ resp.authorization[2].payload \in issued
    /\ UserExists("_id", resp.authorization[2].payload._id)
    /\ resp.authorization[2].expiryDate <= now
    /\ resp.context = Anonymous
    /\ resp.error = "UserNotFound"
    /\ resp.message = "Please login!"

====
